---- MODULE Spec2Model ----
(***************************************************************************)
(* bundlecat: a single-shot client that sends one bundle read from stdin,  *)
(* or receives one bundle and writes it to stdout, through the AAP socket  *)
(* of an archipel/ud3tn node.  Model of src/src/main.rs.                   *)
(*                                                                         *)
(* Strings and byte buffers are sequences of one-character strings.        *)
(* Option<T> is a sequence of length 0 (None) or 1 (Some).                 *)
(***************************************************************************)
EXTENDS Integers, Sequences, FiniteSets, TLC

(* ---------------------------- bounds ----------------------------------- *)
\* longest text that follows the (optional) "dtn://" prefix of an address
MaxTail == 3
\* most non-empty reads of stdin before its end or an error
MaxReads == 2

(* ---------------------------- Option ----------------------------------- *)
None == <<>>
Some(x) == <<x>>
IsSome(o) == Len(o) = 1
IsNone(o) == Len(o) = 0
Unwrap(o) == o[1]

SeqsUpTo(S, n) == UNION {[1..k -> S] : k \in 0..n}

(* ---------------------------- inputs ----------------------------------- *)
\* "dtn://"
Prefix == <<"d", "t", "n", ":", "/", "/">>
\* the characters the parser tells apart: the separator, the group marker,
\* and any other character
Chars == {"/", "~", "a"}
Tails == SeqsUpTo(Chars, MaxTail)
\* addresses without the prefix: empty, one character of each kind, two
\* characters, and two that stop being "dtn://" at the second "/"
Bare == {<<>>, <<"a">>, <<"~">>, <<"/">>, <<"a", "~">>, <<"~", "a">>,
         <<"d", "t", "n", ":", "/">>,
         <<"d", "t", "n", ":", "/", "a", "/", "a">>}
\* the raw address strings given on the command line
Raws == Bare \cup {Prefix \o t : t \in Tails}
\* node ids a node advertises in its welcome message
ServerNodeIds == {Prefix \o <<"a", "/">>, Prefix \o <<"a", "a", "/">>}
\* values of uuid::Uuid::new_v4().to_string()
UuidPool == {<<"0", "-", "4">>, <<"f", "-", "4">>}
\* what one read of stdin can return: between 1 and 1024 bytes
Chunks == {<<"x">>, <<"x", "y">>}
\* bundles the node can deliver: optional source, payload
Bundles == [source : {None, Some(Prefix \o <<"a", "/", "a">>)},
            payload : {<<>>, <<"x">>, <<"y", "x">>}]

(* ------------------- PartialEndpointId (lines 38-75) ------------------- *)
starts_with(s, p) == Len(s) >= Len(p) /\ SubSeq(s, 1, Len(p)) = p

\* split_once that splits at the last occurrence of c
split_once_last(s, c) ==
    IF \E i \in 1..Len(s) : s[i] = c
    THEN LET i == CHOOSE i \in 1..Len(s) :
                      s[i] = c /\ \A j \in (i + 1)..Len(s) : s[j] # c
         IN  Some(<<SubSeq(s, 1, i - 1), SubSeq(s, i + 1, Len(s))>>)
    ELSE None

\* str::split_once: the text before and after the first occurrence of c
split_once(s, c) ==
    IF \E i \in 1..Len(s) : s[i] = c
    THEN LET i == CHOOSE i \in 1..Len(s) :
                      s[i] = c /\ \A j \in 1..(i - 1) : s[j] # c
         IN  Some(<<SubSeq(s, 1, i - 1), SubSeq(s, i + 1, Len(s))>>)
    ELSE None

\* split_node_agent without the test for an empty agent
split_node_agent_EmptyAgent(raw) ==
    IF starts_with(raw, Prefix)
    THEN LET sp == split_once(SubSeq(raw, 7, Len(raw)), "/")
         IN  IF IsNone(sp)
             THEN <<Some(raw), None>>
             ELSE LET node_id == Unwrap(sp)[1]
                      agent_id == Unwrap(sp)[2]
                  IN  <<Some(SubSeq(raw, 1, 6 + Len(node_id) + 1)),
                        Some(agent_id)>>
    ELSE IF raw # <<>>
         THEN <<None, Some(raw)>>
         ELSE <<None, None>>

\* split_node_agent whose node part stops before the separator
split_node_agent_NoSeparator(raw) ==
    IF starts_with(raw, Prefix)
    THEN LET sp == split_once(SubSeq(raw, 7, Len(raw)), "/")
         IN  IF IsNone(sp)
             THEN <<Some(raw), None>>
             ELSE LET node_id == Unwrap(sp)[1]
                      agent_id == Unwrap(sp)[2]
                  IN  IF agent_id = <<>>
                      THEN <<Some(raw), None>>
                      ELSE <<Some(SubSeq(raw, 1, 6 + Len(node_id))),
                             Some(agent_id)>>
    ELSE IF raw # <<>>
         THEN <<None, Some(raw)>>
         ELSE <<None, None>>

split_node_agent(raw) ==
    IF starts_with(raw, Prefix)
    THEN LET sp == split_once(SubSeq(raw, 7, Len(raw)), "/")
         IN  IF IsNone(sp)
             THEN <<Some(raw), None>>
             ELSE LET node_id == Unwrap(sp)[1]
                      agent_id == Unwrap(sp)[2]
                  IN  IF agent_id = <<>>
                      THEN <<Some(raw), None>>
                      ELSE <<Some(SubSeq(raw, 1, 6 + Len(node_id) + 1)),
                             Some(agent_id)>>
    ELSE IF raw # <<>>
         THEN <<None, Some(raw)>>
         ELSE <<None, None>>

node_id(raw) == split_node_agent(raw)[1]

agent_id_of(raw) == split_node_agent(raw)[2]

\* is_singleton_node that looks at the raw string instead of its node part
is_singleton_node_Raw(raw) ==
    LET c == IF Len(raw) > 6 THEN Some(raw[7]) ELSE None
    IN  ~ (c = Some("~"))

is_singleton_node(raw) ==
    LET n == node_id(raw)
        c == IF IsSome(n) /\ Len(Unwrap(n)) > 6 THEN Some(Unwrap(n)[7]) ELSE None
    IN  ~ (c = Some("~"))

(* ---------------------------- state ------------------------------------ *)
VARIABLES
    listen,              \* cli.listen
    verbose,             \* cli.verbose
    endpoint_id,         \* cli.endpoint_id : Option<PartialEndpointId>
    source_endpoint_id,  \* cli.source_endpoint_id : Option<PartialEndpointId>
    pc,                  \* position in main / send / receive
    server_node,         \* agent.node_id(): Some once the handshake succeeded
    uuid,                \* the value new_v4() returned, if it was called
    agent_id,            \* the derived agent id (line 145), Some once derived
    trace,               \* the steps executed so far: [step, ok]
    registered,          \* the argument of agent.register, if it was called
    bundle_content,      \* send: the buffer filled from stdin
    sent,                \* the arguments of agent.send_bundle, if it was called
    bundle,              \* receive: the bundle recv_bundle returned
    out,                 \* bytes written to stdout
    log,                 \* verbose lines written to stderr by log!
    err,                 \* error messages written to stderr
    exit,                \* how the process ended
    parsed,              \* the value split_node_agent returned, when called alone
    singleton            \* the value is_singleton_node returned, when called alone

vars == <<listen, verbose, endpoint_id, source_endpoint_id, pc, server_node,
          uuid, agent_id, trace, registered, bundle_content, sent, bundle,
          out, log, err, exit, parsed, singleton>>

\* the results of the functions of PartialEndpointId called on their own
unit == <<parsed, singleton>>

cli == <<listen, verbose, endpoint_id, source_endpoint_id>>

Running == [via |-> "running"]
ProcessExit(code) == [via |-> "process::exit", code |-> code]
ClapExit == [via |-> "clap", kind |-> "MissingRequiredArgument"]
Returned == [via |-> "return"]

ExitedWith(code) == exit.via = "process::exit" /\ exit.code = code

\* the argument of std::process::exit at each failure site
\* (lines 107, 111, 117, 127, 142, 156, 185, 200, 211, 223)
SiteExitCode(site) ==
    CASE site = "check_source"  -> 1
      [] site = "check_listen"  -> 1
      [] site = "connect"       -> 10
      [] site = "handshake"     -> 11
      [] site = "cross_check"   -> 2
      [] site = "register"      -> 11
      [] site = "read_stdin"    -> 13
      [] site = "send_bundle"   -> 14
      [] site = "recv_bundle"   -> 15
      [] site = "write_stdout"  -> 16

Step(name, ok) == [step |-> name, ok |-> ok]

\* log!(verbose, ...)
Log(line) == IF verbose THEN Append(log, line) ELSE log

\* Cli::parse(): the positional endpoint is required unless --listen
Init ==
    /\ listen \in BOOLEAN
    /\ verbose \in BOOLEAN
    /\ endpoint_id \in {None} \cup {Some(r) : r \in Raws}
    /\ source_endpoint_id \in {None} \cup {Some(r) : r \in Raws}
    /\ (~listen => IsSome(endpoint_id))
    /\ pc = "validate"
    /\ server_node = None
    /\ uuid = None
    /\ agent_id = None
    /\ trace = <<>>
    /\ registered = None
    /\ bundle_content = <<>>
    /\ sent = None
    /\ bundle = None
    /\ out = <<>>
    /\ log = <<>>
    /\ err = <<>>
    /\ exit = Running
    /\ parsed = None
    /\ singleton = None

\* a fatal error: message on stderr, then the process ends
Fail(step, msg, how) ==
    /\ trace' = Append(trace, Step(step, FALSE))
    /\ err' = Append(err, msg)
    /\ exit' = how
    /\ pc' = "aborted"

Pass(step, next) ==
    /\ trace' = Append(trace, Step(step, TRUE))
    /\ pc' = next
    /\ UNCHANGED <<err, exit>>

(* ---------------------------- main ------------------------------------- *)
\* CheckDestination with the two tests in the other order
CheckDestination_AgentFirst ==
    /\ pc = "validate" /\ ~listen
    /\ IF IsNone(endpoint_id) \/ IsNone(agent_id_of(Unwrap(endpoint_id)))
       THEN Fail("check_destination", [kind |-> "missing agent_id"], ClapExit)
       ELSE IF IsNone(endpoint_id) \/ IsNone(node_id(Unwrap(endpoint_id)))
            THEN Fail("check_destination", [kind |-> "missing node_id"], ClapExit)
            ELSE Pass("check_destination", "check_source")
    /\ UNCHANGED <<unit, cli, server_node, uuid, agent_id, registered,
                   bundle_content, sent, bundle, out, log>>

\* lines 93-104: send mode, the destination has a node and an agent part
CheckDestination ==
    /\ pc = "validate" /\ ~listen
    /\ IF IsNone(endpoint_id) \/ IsNone(node_id(Unwrap(endpoint_id)))
       THEN Fail("check_destination", [kind |-> "missing node_id"], ClapExit)
       ELSE IF IsNone(endpoint_id) \/ IsNone(agent_id_of(Unwrap(endpoint_id)))
            THEN Fail("check_destination", [kind |-> "missing agent_id"], ClapExit)
            ELSE Pass("check_destination", "check_source")
    /\ UNCHANGED <<unit, cli, server_node, uuid, agent_id, registered,
                   bundle_content, sent, bundle, out, log>>

\* CheckSource that reports the non-singleton source and goes on
CheckSource_FallThrough ==
    /\ pc = "check_source"
    /\ IF IsSome(source_endpoint_id) /\ ~is_singleton_node(Unwrap(source_endpoint_id))
       THEN /\ trace' = Append(trace, Step("check_source", FALSE))
            /\ err' = Append(err, [kind |-> "non-singleton source"])
            /\ pc' = "connect"
            /\ UNCHANGED exit
       ELSE Pass("check_source", "connect")
    /\ UNCHANGED <<unit, cli, server_node, uuid, agent_id, registered,
                   bundle_content, sent, bundle, out, log>>

\* lines 105-108: send mode, a supplied source is a singleton
CheckSource ==
    /\ pc = "check_source"
    /\ IF IsSome(source_endpoint_id) /\ ~is_singleton_node(Unwrap(source_endpoint_id))
       THEN Fail("check_source", [kind |-> "non-singleton source"], ProcessExit(SiteExitCode("check_source")))
       ELSE Pass("check_source", "connect")
    /\ UNCHANGED <<unit, cli, server_node, uuid, agent_id, registered,
                   bundle_content, sent, bundle, out, log>>

\* CheckListen that tests the source address instead of the listening address
CheckListen_TestsSource ==
    /\ pc = "validate" /\ listen
    /\ IF IsSome(source_endpoint_id) /\ ~is_singleton_node(Unwrap(source_endpoint_id))
       THEN Fail("check_listen", [kind |-> "non-singleton listen"],
                 ProcessExit(SiteExitCode("check_listen")))
       ELSE Pass("check_listen", "connect")
    /\ UNCHANGED <<unit, cli, server_node, uuid, agent_id, registered,
                   bundle_content, sent, bundle, out, log>>

\* lines 109-112: listen mode, a supplied listening address is a singleton
CheckListen ==
    /\ pc = "validate" /\ listen
    /\ IF IsSome(endpoint_id) /\ ~is_singleton_node(Unwrap(endpoint_id))
       THEN Fail("check_listen", [kind |-> "non-singleton listen"], ProcessExit(SiteExitCode("check_listen")))
       ELSE Pass("check_listen", "connect")
    /\ UNCHANGED <<unit, cli, server_node, uuid, agent_id, registered,
                   bundle_content, sent, bundle, out, log>>

\* lines 114-122: UnixStream::connect
Connect ==
    /\ pc = "connect"
    /\ \E ok \in BOOLEAN :
         IF ok
         THEN /\ Pass("connect", "handshake")
              /\ log' = Log([kind |-> "connected"])
         ELSE /\ Fail("connect", [kind |-> "connect failed"], ProcessExit(SiteExitCode("connect")))
              /\ UNCHANGED log
    /\ UNCHANGED <<unit, cli, server_node, uuid, agent_id, registered,
                   bundle_content, sent, bundle, out>>

\* lines 124-133: Agent::new reads the welcome message of the node
Handshake ==
    /\ pc = "handshake"
    /\ \/ \E n \in ServerNodeIds :
            /\ Pass("handshake", "cross_check")
            /\ server_node' = Some(n)
            /\ log' = Log([kind |-> "welcome", node |-> n])
       \/ /\ Fail("handshake", [kind |-> "establish failed"], ProcessExit(SiteExitCode("handshake")))
          /\ UNCHANGED <<server_node, log>>
    /\ UNCHANGED <<unit, cli, uuid, agent_id, registered,
                   bundle_content, sent, bundle, out>>

\* does the address name a node other than the node's own
OtherNode(addr) ==
    /\ IsSome(addr)
    /\ IsSome(node_id(Unwrap(addr)))
    /\ Unwrap(node_id(Unwrap(addr))) # Unwrap(server_node)

\* CrossCheck that also holds the destination of a send against the node id
CrossCheck_AnyAddress ==
    /\ pc = "cross_check"
    /\ IF OtherNode(endpoint_id) \/ OtherNode(source_endpoint_id)
       THEN Fail("cross_check",
                 [kind |-> "node id mismatch", node |-> Unwrap(server_node)],
                 ProcessExit(SiteExitCode("cross_check")))
       ELSE Pass("cross_check", "derive_agent_id")
    /\ UNCHANGED <<unit, cli, server_node, uuid, agent_id, registered,
                   bundle_content, sent, bundle, out, log>>

\* CrossCheck that looks at the source address only
CrossCheck_SourceOnly ==
    /\ pc = "cross_check"
    /\ IF OtherNode(source_endpoint_id)
       THEN Fail("cross_check",
                 [kind |-> "node id mismatch", node |-> Unwrap(server_node)],
                 ProcessExit(SiteExitCode("cross_check")))
       ELSE Pass("cross_check", "derive_agent_id")
    /\ UNCHANGED <<unit, cli, server_node, uuid, agent_id, registered,
                   bundle_content, sent, bundle, out, log>>

\* lines 135-143
CrossCheck ==
    /\ pc = "cross_check"
    /\ IF (listen /\ OtherNode(endpoint_id)) \/ OtherNode(source_endpoint_id)
       THEN Fail("cross_check",
                 [kind |-> "node id mismatch", node |-> Unwrap(server_node)],
                 ProcessExit(SiteExitCode("cross_check")))
       ELSE Pass("cross_check", "derive_agent_id")
    /\ UNCHANGED <<unit, cli, server_node, uuid, agent_id, registered,
                   bundle_content, sent, bundle, out, log>>

\* AgentAddress that takes the positional address in both modes
AgentAddress_Positional ==
    IF IsSome(endpoint_id) THEN Unwrap(endpoint_id) ELSE <<>>

\* the address the agent id is taken from (lines 145-149)
AgentAddress ==
    LET a == IF listen THEN endpoint_id ELSE source_endpoint_id
    IN  IF IsSome(a) THEN Unwrap(a) ELSE <<>>

\* lines 145-151
DeriveAgentId ==
    /\ pc = "derive_agent_id"
    /\ IF IsSome(agent_id_of(AgentAddress))
       THEN /\ agent_id' = agent_id_of(AgentAddress)
            /\ UNCHANGED uuid
       ELSE \E u \in UuidPool :
            /\ uuid' = Some(u)
            /\ agent_id' = Some(u)
    /\ Pass("derive_agent_id", "register")
    /\ UNCHANGED <<unit, cli, server_node, registered,
                   bundle_content, sent, bundle, out, log>>

\* lines 153-170: agent.register, then the call of receive or send
Register ==
    /\ pc = "register"
    /\ registered' = agent_id
    /\ \E ok \in BOOLEAN :
         IF ok
         THEN /\ Pass("register", IF listen THEN "receive" ELSE "send_read")
              /\ log' = Log([kind |-> "registered",
                             node |-> Unwrap(server_node),
                             agent |-> Unwrap(agent_id)])
         ELSE /\ Fail("register", [kind |-> "establish failed"], ProcessExit(SiteExitCode("register")))
              /\ UNCHANGED log
    /\ UNCHANGED <<unit, cli, server_node, uuid, agent_id,
                   bundle_content, sent, bundle, out>>

(* ---------------------------- send ------------------------------------- *)
\* iterations of the read loop executed so far
NumReads == Cardinality({i \in DOMAIN trace : trace[i].step = "read_stdin"})

\* stdin().read returned the bytes data (none at the end of the stream)
Read(data, next) ==
    /\ trace' = Append(trace, [step |-> "read_stdin", ok |-> TRUE, data |-> data])
    /\ pc' = next
    /\ UNCHANGED <<err, exit>>

\* ReadStdin that keeps only the bytes of the last read
ReadStdin_Overwrite ==
    /\ pc = "send_read"
    /\ \/ \E chunk \in Chunks :
            /\ NumReads < MaxReads
            /\ bundle_content' = chunk
            /\ Read(chunk, "send_read")
       \/ /\ Read(<<>>, "send_bundle")
          /\ UNCHANGED bundle_content
       \/ /\ Fail("read_stdin", [kind |-> "read failed"], ProcessExit(SiteExitCode("read_stdin")))
          /\ UNCHANGED bundle_content
    /\ UNCHANGED <<unit, cli, server_node, uuid, agent_id, registered,
                   sent, bundle, out, log>>

\* ReadStdin that goes on reading after the end of the stream
ReadStdin_PastEnd ==
    /\ pc = "send_read"
    /\ \/ \E chunk \in Chunks :
            /\ NumReads < MaxReads
            /\ bundle_content' = bundle_content \o chunk
            /\ Read(chunk, "send_read")
       \/ /\ Read(<<>>, "send_read")
          /\ UNCHANGED bundle_content
       \/ /\ Fail("read_stdin", [kind |-> "read failed"], ProcessExit(SiteExitCode("read_stdin")))
          /\ UNCHANGED bundle_content
    /\ UNCHANGED <<unit, cli, server_node, uuid, agent_id, registered,
                   sent, bundle, out, log>>

\* lines 180-194: one iteration of the read loop
ReadStdin ==
    /\ pc = "send_read"
    /\ \/ \E chunk \in Chunks :
            /\ NumReads < MaxReads
            /\ bundle_content' = bundle_content \o chunk
            /\ Read(chunk, "send_read")
       \/ /\ Read(<<>>, "send_bundle")
          /\ UNCHANGED bundle_content
       \/ /\ Fail("read_stdin", [kind |-> "read failed"], ProcessExit(SiteExitCode("read_stdin")))
          /\ UNCHANGED bundle_content
    /\ UNCHANGED <<unit, cli, server_node, uuid, agent_id, registered,
                   sent, bundle, out, log>>

\* SendBundle that tries again after a failed send
SendBundle_Retry ==
    /\ pc = "send_bundle"
    /\ sent' = Some([destination |-> Unwrap(endpoint_id),
                     payload |-> bundle_content])
    /\ \E ok \in BOOLEAN :
         IF ok
         THEN /\ trace' = Append(trace, Step("send_bundle", TRUE))
              /\ log' = Log([kind |-> "sent",
                             size |-> Len(bundle_content),
                             destination |-> Unwrap(endpoint_id)])
              /\ pc' = "closed"
              /\ exit' = Returned
              /\ UNCHANGED err
         ELSE /\ trace' = Append(trace, Step("send_bundle", FALSE))
              /\ err' = Append(err, [kind |-> "send failed"])
              /\ UNCHANGED <<pc, exit, log>>
    /\ UNCHANGED <<unit, cli, server_node, uuid, agent_id, registered,
                   bundle_content, bundle, out>>

\* lines 196-204
SendBundle ==
    /\ pc = "send_bundle"
    /\ sent' = Some([destination |-> Unwrap(endpoint_id),
                     payload |-> bundle_content])
    /\ \E ok \in BOOLEAN :
         IF ok
         THEN /\ trace' = Append(trace, Step("send_bundle", TRUE))
              /\ log' = Log([kind |-> "sent",
                             size |-> Len(bundle_content),
                             destination |-> Unwrap(endpoint_id)])
              /\ pc' = "closed"
              /\ exit' = Returned
              /\ UNCHANGED err
         ELSE /\ Fail("send_bundle", [kind |-> "send failed"], ProcessExit(SiteExitCode("send_bundle")))
              /\ UNCHANGED log
    /\ UNCHANGED <<unit, cli, server_node, uuid, agent_id, registered,
                   bundle_content, bundle, out>>

(* ---------------------------- receive ---------------------------------- *)
\* RecvBundle that connects again after a failed receive
RecvBundle_Reconnect ==
    /\ pc = "receive"
    /\ \/ \E b \in Bundles :
            /\ bundle' = Some(b)
            /\ log' = Log(IF IsSome(b.source)
                          THEN [kind |-> "received", source |-> Unwrap(b.source)]
                          ELSE [kind |-> "received from unknown source"])
            /\ Pass("recv_bundle", "write_stdout")
       \/ /\ trace' = Append(trace, Step("recv_bundle", FALSE))
          /\ err' = Append(err, [kind |-> "receive failed"])
          /\ pc' = "connect"
          /\ UNCHANGED <<bundle, log, exit>>
    /\ UNCHANGED <<unit, cli, server_node, uuid, agent_id, registered,
                   bundle_content, sent, out>>

\* lines 207-219
RecvBundle ==
    /\ pc = "receive"
    /\ \/ \E b \in Bundles :
            /\ bundle' = Some(b)
            /\ log' = Log(IF IsSome(b.source)
                          THEN [kind |-> "received", source |-> Unwrap(b.source)]
                          ELSE [kind |-> "received from unknown source"])
            /\ Pass("recv_bundle", "write_stdout")
       \/ /\ Fail("recv_bundle", [kind |-> "receive failed"], ProcessExit(SiteExitCode("recv_bundle")))
          /\ UNCHANGED <<bundle, log>>
    /\ UNCHANGED <<unit, cli, server_node, uuid, agent_id, registered,
                   bundle_content, sent, out>>

\* WriteStdout that writes the payload after a line naming its source
WriteStdout_WithHeader ==
    /\ pc = "write_stdout"
    /\ LET payload == Unwrap(bundle).payload
           header == IF IsSome(Unwrap(bundle).source)
                     THEN Unwrap(Unwrap(bundle).source) ELSE <<>>
       IN  \/ /\ out' = out \o header \o payload
              /\ trace' = Append(trace, Step("write_stdout", TRUE))
              /\ pc' = "closed"
              /\ exit' = Returned
              /\ UNCHANGED err
           \/ \E n \in 0..(Len(payload) - 1) :
              /\ out' = out \o SubSeq(payload, 1, n)
              /\ Fail("write_stdout", [kind |-> "write failed"], ProcessExit(SiteExitCode("write_stdout")))
    /\ UNCHANGED <<unit, cli, server_node, uuid, agent_id, registered,
                   bundle_content, sent, bundle, log>>

\* lines 221-225: write_all either writes everything or fails after having
\* written some proper prefix
WriteStdout ==
    /\ pc = "write_stdout"
    /\ LET payload == Unwrap(bundle).payload
       IN  \/ /\ out' = out \o payload
              /\ trace' = Append(trace, Step("write_stdout", TRUE))
              /\ pc' = "closed"
              /\ exit' = Returned
              /\ UNCHANGED err
           \/ \E n \in 0..(Len(payload) - 1) :
              /\ out' = out \o SubSeq(payload, 1, n)
              /\ Fail("write_stdout", [kind |-> "write failed"], ProcessExit(SiteExitCode("write_stdout")))
    /\ UNCHANGED <<unit, cli, server_node, uuid, agent_id, registered,
                   bundle_content, sent, bundle, log>>

Next ==
    \/ CheckDestination
    \/ CheckSource
    \/ CheckListen
    \/ Connect
    \/ Handshake
    \/ CrossCheck
    \/ DeriveAgentId
    \/ Register
    \/ ReadStdin
    \/ SendBundle
    \/ RecvBundle
    \/ WriteStdout

Spec == Init /\ [][Next]_vars

\* the program is sequential: a step that can be taken is taken, as long as
\* every blocking call (connect, the reads of the socket and of stdin, the
\* write) returns
LiveSpec == Spec /\ WF_vars(Next)

(* ------------- PartialEndpointId on its own (lines 38-75) -------------- *)
\* beginnings of an address: the parts of "dtn://", and near misses
Heads == {SubSeq(Prefix, 1, k) : k \in 0..6}
         \cup {<<"d", "t", "n", ":", "/", "a">>, <<"d", "t", "n", "/", "/", ":">>,
               <<"a", "d", "t", "n", ":", "/", "/">>}
ParseRaws == {h \o t : h \in Heads, t \in Tails}

ParseInit ==
    /\ listen = TRUE
    /\ verbose = FALSE
    /\ endpoint_id \in {Some(r) : r \in ParseRaws}
    /\ source_endpoint_id = None
    /\ pc = "split_node_agent"
    /\ server_node = None
    /\ uuid = None
    /\ agent_id = None
    /\ trace = <<>>
    /\ registered = None
    /\ bundle_content = <<>>
    /\ sent = None
    /\ bundle = None
    /\ out = <<>>
    /\ log = <<>>
    /\ err = <<>>
    /\ exit = Running
    /\ parsed = None
    /\ singleton = None

\* lines 42-59
SplitNodeAgent ==
    /\ pc = "split_node_agent"
    /\ parsed' = Some(split_node_agent(Unwrap(endpoint_id)))
    /\ pc' = "is_singleton_node"
    /\ UNCHANGED <<singleton, cli, server_node, uuid, agent_id, trace, registered,
                   bundle_content, sent, bundle, out, log, err, exit>>

\* lines 69-74
IsSingletonNode ==
    /\ pc = "is_singleton_node"
    /\ singleton' = Some(is_singleton_node(Unwrap(endpoint_id)))
    /\ pc' = "returned"
    /\ UNCHANGED <<parsed, cli, server_node, uuid, agent_id, trace, registered,
                   bundle_content, sent, bundle, out, log, err, exit>>

ParseNext ==
    \/ SplitNodeAgent
    \/ IsSingletonNode

ParseSpec == ParseInit /\ [][ParseNext]_vars

(* ======================== properties =================================== *)
Did(s) == \E i \in DOMAIN trace : trace[i].step = s
LastStep == trace[Len(trace)]
Terminated == pc \in {"closed", "aborted"}

\* addresses of the examples
Str_node1 == Prefix \o <<"a">>
Str_node1_slash == Prefix \o <<"a", "/">>
Str_node1_agent1 == Prefix \o <<"a", "/", "a">>
Str_agent1 == <<"a">>
Str_group_agent == Prefix \o <<"~", "/", "a">>

\* the steps of main before the exchange, in program order, per mode
SendOrder == <<"check_destination", "check_source", "connect", "handshake",
               "cross_check", "derive_agent_id", "register">>
ListenOrder == <<"check_listen", "connect", "handshake",
                 "cross_check", "derive_agent_id", "register">>
ExchangeSteps == IF listen THEN {"recv_bundle", "write_stdout"}
                           ELSE {"read_stdin", "send_bundle"}

\* C1: the steps executed so far are an initial part of the fixed order
\* (destination check, source check | listen check, connect, handshake,
\* cross-check, agent-id derivation, register, exchange), and every step
\* but the last one succeeded: no connect after a failed validation, no
\* register after a failed handshake or cross-check, no send/receive
\* without a successful register.
C1_FixedOrder ==
    LET order == IF listen THEN ListenOrder ELSE SendOrder
    IN  /\ \A i \in DOMAIN trace :
             IF i <= Len(order) THEN trace[i].step = order[i]
                                ELSE trace[i].step \in ExchangeSteps
        /\ \A i \in 1..(Len(trace) - 1) : trace[i].ok
        /\ IsSome(server_node) => Did("handshake")
        /\ IsSome(registered) => Did("register")
        /\ (IsSome(sent) \/ IsSome(bundle)) =>
              \E i \in DOMAIN trace : trace[i].step = "register" /\ trace[i].ok

\* a send run that went through every step
C1_Witness ==
    /\ ~listen /\ pc = "closed"
    /\ Len(trace) = Len(SendOrder) + 3
    /\ LastStep.step = "send_bundle"

\* C2: in send mode the destination passes validation iff it parses to a
\* node and an agent; without a node the message is "missing node_id"
\* (also when the agent is missing too), with a node and no agent it is
\* "missing agent_id"; a rejected run ends there, nothing was connected.
C2_DestinationComplete ==
    (~listen /\ Did("check_destination")) =>
        LET dest == Unwrap(endpoint_id)
            parts == split_node_agent(dest)
            rejected(kind) == /\ trace = <<Step("check_destination", FALSE)>>
                              /\ err = <<[kind |-> kind]>>
                              /\ exit = ClapExit
                              /\ pc = "aborted"
                              /\ registered = None /\ sent = None
        IN  /\ trace[1].ok <=> (IsSome(parts[1]) /\ IsSome(parts[2]))
            /\ IsNone(parts[1]) => rejected("missing node_id")
            /\ (IsSome(parts[1]) /\ IsNone(parts[2])) => rejected("missing agent_id")
            /\ dest \in {Str_agent1, <<>>} => rejected("missing node_id")
            /\ dest \in {Str_node1, Str_node1_slash} => rejected("missing agent_id")
            /\ dest = Str_node1_agent1 => trace[1].ok

\* the destination dtn://a/ was rejected for its missing agent
C2_Witness ==
    /\ ~listen /\ endpoint_id = Some(Str_node1_slash)
    /\ err = <<[kind |-> "missing agent_id"]>>
    /\ pc = "aborted"

\* the destination of a send run is complete
DestinationComplete ==
    /\ IsSome(endpoint_id)
    /\ IsSome(node_id(Unwrap(endpoint_id)))
    /\ IsSome(agent_id_of(Unwrap(endpoint_id)))

\* C3: once validation is over, the run has ended with exit code 1 exactly
\* when a non-singleton source was supplied to a send with a complete
\* destination, or a non-singleton listening address to a listen; and a run
\* that ended with exit code 1 never connected.
C3_NonSingletonRejected ==
    LET nonSingleton(a) == IsSome(a) /\ ~is_singleton_node(Unwrap(a))
        rejects == \/ ~listen /\ DestinationComplete /\ nonSingleton(source_endpoint_id)
                   \/ listen /\ nonSingleton(endpoint_id)
    IN  /\ pc \notin {"validate", "check_source"} =>
              /\ ExitedWith(1) <=> rejects
              /\ rejects => ~Did("connect") /\ pc = "aborted"
        /\ (~listen /\ source_endpoint_id = Some(Str_group_agent)) =>
              ~Did("connect")
        /\ (listen /\ endpoint_id = Some(Str_group_agent)) =>
              ~Did("connect")

\* a listen on a group address was rejected although the source is a singleton
C3_Witness ==
    /\ listen /\ endpoint_id = Some(Str_group_agent)
    /\ source_endpoint_id = Some(Str_node1_agent1)
    /\ ExitedWith(1) /\ trace = <<Step("check_listen", FALSE)>>

\* C4: in listen mode, once the handshake succeeded and the cross-check
\* ran, a listening address whose node part differs from the advertised
\* node id has ended the run with exit code 2 and a message naming the
\* advertised node id, and neither register nor receive was called.
C4_ListenNodeMismatch ==
    ( /\ listen /\ IsSome(server_node) /\ pc # "cross_check"
      /\ IsSome(endpoint_id)
      /\ IsSome(node_id(Unwrap(endpoint_id)))
      /\ Unwrap(node_id(Unwrap(endpoint_id))) # Unwrap(server_node) ) =>
        /\ pc = "aborted" /\ ExitedWith(2)
        /\ err = <<[kind |-> "node id mismatch", node |-> Unwrap(server_node)]>>
        /\ registered = None /\ bundle = None
        /\ ~Did("register") /\ ~Did("recv_bundle")

\* listening on dtn://aa/ at a node that advertises dtn://a/, no source given
C4_Witness ==
    /\ listen /\ source_endpoint_id = None
    /\ endpoint_id = Some(Prefix \o <<"a", "a", "/">>)
    /\ server_node = Some(Str_node1_slash)
    /\ ExitedWith(2)

\* addr has a node part that is not, character for character, the advertised node id
Differs(addr) ==
    /\ IsSome(addr)
    /\ split_node_agent(Unwrap(addr))[1] # None
    /\ split_node_agent(Unwrap(addr))[1] # server_node

CrossChecked == IsSome(server_node) /\ pc # "cross_check"

MismatchReported ==
    /\ pc = "aborted" /\ ExitedWith(2)
    /\ err = <<[kind |-> "node id mismatch", node |-> Unwrap(server_node)]>>

\* C5 as stated: once the handshake succeeded and the cross-check ran, a
\* node part in the positional address (destination or listening address)
\* or in the source address that differs from the advertised node id has
\* ended the run with exit code 2.
C5_AnyExplicitNode ==
    (CrossChecked /\ (Differs(endpoint_id) \/ Differs(source_endpoint_id)))
        => MismatchReported

\* C5 as amended: once the handshake succeeded and the cross-check ran, a
\* differing node part in the listening address of a listen, or in the
\* source address of a send, has ended the run with exit code 2 and the
\* mismatch message; the destination of a send is not cross-checked: a
\* send whose source has no differing node part passed the cross-check.
C5_ListenOrSourceNode ==
    CrossChecked =>
        /\ ((listen /\ Differs(endpoint_id)) \/ (~listen /\ Differs(source_endpoint_id)))
              => MismatchReported
        /\ (~listen /\ ~Differs(source_endpoint_id)) =>
              /\ ~ExitedWith(2)
              /\ Step("cross_check", TRUE) \in {trace[i] : i \in DOMAIN trace}

\* a bundle was sent to dtn://a/a through the node dtn://aa/
C5_Witness ==
    /\ ~listen /\ pc = "closed"
    /\ endpoint_id = Some(Str_node1_agent1)
    /\ server_node = Some(Prefix \o <<"a", "a", "/">>)
    /\ Differs(endpoint_id)
    /\ IsSome(sent)

\* C6: a listen without a positional address registers the id that new_v4
\* returned and never ends with the node-mismatch exit code 2.
C6_NoAddressNoCrossCheck ==
    (listen /\ endpoint_id = None) =>
        /\ ~ExitedWith(2)
        /\ IsSome(registered) => (IsSome(uuid) /\ registered = uuid)

\* C7: a listen does not depend on --source-endpoint.  No step of a listen
\* but the cross-check reads the option, so the claim is that the outcome of
\* the cross-check is the one of the run without the option: it fails
\* exactly when the listening address has a differing node part.
C7_SourceIgnoredWhenListening ==
    (listen /\ CrossChecked) =>
        (ExitedWith(2) <=> Differs(endpoint_id))

\* C8: the argument of register is the agent part of the listening address
\* (listen) or of the source address (send) when that address is given and
\* has an agent part, and otherwise the id new_v4 returned; the destination
\* of a send has no part in it.
C8_RegisteredAgentId ==
    IsSome(registered) =>
        LET a == IF listen THEN endpoint_id ELSE source_endpoint_id
            parts == IF IsSome(a) THEN split_node_agent(Unwrap(a)) ELSE <<None, None>>
        IN  /\ IF IsSome(parts[2])
               THEN registered = parts[2] /\ uuid = None
               ELSE IsSome(uuid) /\ registered = uuid /\ Unwrap(uuid) \in UuidPool
            /\ a = None => registered = uuid
            /\ a \in {Some(<<>>), Some(Str_node1), Some(Str_node1_slash)} =>
                  registered = uuid
            /\ a = Some(Str_node1_agent1) => registered = Some(<<"a">>)
            /\ a = Some(<<"a", "~">>) => registered = Some(<<"a", "~">>)

\* a send to dtn://a/a without a source registered a generated id
C8_Witness ==
    /\ ~listen /\ endpoint_id = Some(Str_node1_agent1)
    /\ source_endpoint_id = None
    /\ IsSome(registered) /\ registered = uuid
    /\ Did("register")

TransportSteps == {"connect", "handshake", "register", "send_bundle", "recv_bundle"}

\* C9: a run makes at most one exchange call, send_bundle only in a send
\* and recv_bundle only in a listen; a run that ended successfully made
\* exactly one, and it succeeded; no transport call follows the exchange.
C9_OneExchange ==
    LET ex == {i \in DOMAIN trace : trace[i].step \in {"send_bundle", "recv_bundle"}}
    IN  /\ Cardinality(ex) <= 1
        /\ Did("send_bundle") => ~listen
        /\ Did("recv_bundle") => listen
        /\ IsSome(sent) <=> Did("send_bundle")
        /\ IsSome(bundle) => Did("recv_bundle")
        /\ pc = "closed" =>
              /\ Cardinality(ex) = 1
              /\ \A i \in ex : trace[i].ok
              /\ exit = Returned
        /\ \A i \in ex : \A j \in DOMAIN trace :
              j > i => trace[j].step \notin TransportSteps

\* a listen that received its bundle and wrote it
C9_Witness ==
    /\ listen /\ pc = "closed"
    /\ Did("recv_bundle") /\ LastStep.step = "write_stdout"
    /\ out = Unwrap(bundle).payload /\ out # <<>>

OperationalSites == {"connect", "handshake", "register", "read_stdin",
                     "send_bundle", "recv_bundle", "write_stdout"}

\* C10: the exit code of a run that failed at an operational site is the
\* exit code of no other operational site.
C10_ExitCodeIdentifiesSite ==
    ( /\ pc = "aborted" /\ exit.via = "process::exit"
      /\ LastStep.step \in OperationalSites ) =>
        \A s \in OperationalSites :
            SiteExitCode(s) = exit.code => s = LastStep.step

(* ---------------- properties of PartialEndpointId ---------------------- *)
\* the string given to the parser
Raw == Unwrap(endpoint_id)
\* Raw begins with d, t, n, :, /, /
BeginsWithScheme ==
    /\ Len(Raw) >= 6
    /\ Raw[1] = "d" /\ Raw[2] = "t" /\ Raw[3] = "n"
    /\ Raw[4] = ":" /\ Raw[5] = "/" /\ Raw[6] = "/"
\* positions of the separators after the scheme
Separators == {i \in 7..Len(Raw) : Raw[i] = "/"}
FirstSeparator == CHOOSE i \in Separators : \A j \in Separators : i <= j
\* there is a separator after the scheme and text after the first one
HasAgentTail == BeginsWithScheme /\ Separators # {} /\ FirstSeparator < Len(Raw)
Node == Unwrap(parsed)[1]
Agent == Unwrap(parsed)[2]

\* C11: parse returns (raw, none) for a prefixed raw without separator or
\* with nothing after the first separator; (dtn:// + text before the first
\* separator + /, text after it) when there is text after it; (none, raw)
\* for a non-empty raw without the prefix; (none, none) for the empty raw.
C11_ParseCases ==
    IsSome(parsed) =>
        IF BeginsWithScheme
        THEN IF HasAgentTail
             THEN /\ Node = Some(Prefix \o [i \in 1..(FirstSeparator - 7) |-> Raw[6 + i]]
                                        \o <<"/">>)
                  /\ Agent = Some([i \in 1..(Len(Raw) - FirstSeparator) |->
                                       Raw[FirstSeparator + i]])
             ELSE Node = Some(Raw) /\ Agent = None
        ELSE IF Raw # <<>>
             THEN Node = None /\ Agent = Some(Raw)
             ELSE Node = None /\ Agent = None

\* dtn:///a/ was split into dtn:/// and a/: the agent keeps the later separator
C11_Witness ==
    /\ IsSome(parsed)
    /\ Raw = Prefix \o <<"/", "a", "/">>
    /\ Node = Some(Prefix \o <<"/">>)
    /\ Agent = Some(<<"a", "/">>)

\* C12 as stated: for a prefixed raw with text after the first separator,
\* parse returns a node and an agent, and node + "/" + agent is raw.
C12_NodeSlashAgent ==
    (IsSome(parsed) /\ HasAgentTail) =>
        /\ IsSome(Node) /\ IsSome(Agent)
        /\ Unwrap(Node) \o <<"/">> \o Unwrap(Agent) = Raw

\* C12 as amended: for a prefixed raw with text after the first separator,
\* parse returns a node and an agent, and node + agent is raw (the node
\* ends with the separator already).
C12_NodeAgent ==
    (IsSome(parsed) /\ HasAgentTail) =>
        /\ IsSome(Node) /\ IsSome(Agent)
        /\ Unwrap(Node) \o Unwrap(Agent) = Raw

\* dtn://a/a was split into dtn://a/ and a
C12_Witness ==
    /\ IsSome(parsed) /\ HasAgentTail
    /\ Raw = Prefix \o <<"a", "/", "a">>
    /\ Node = Some(Prefix \o <<"a", "/">>) /\ Agent = Some(<<"a">>)

\* C13: parse returns a node exactly when raw begins with the prefix, and
\* every node it returns begins with dtn:// and ends with the separator.
C13_NodeShape ==
    IsSome(parsed) =>
        /\ IsSome(Node) <=> BeginsWithScheme
        /\ IsSome(Node) =>
              /\ Len(Unwrap(Node)) >= 6
              /\ SubSeq(Unwrap(Node), 1, 6) = Prefix
              /\ Unwrap(Node)[Len(Unwrap(Node))] = "/"

\* C14: is_singleton_node is false exactly when parse returns a node and
\* the character right after dtn:// is the group marker.
C14_SingletonIffNoMarker ==
    (IsSome(parsed) /\ IsSome(singleton)) =>
        /\ Unwrap(singleton) = FALSE <=>
              (BeginsWithScheme /\ Len(Raw) >= 7 /\ Raw[7] = "~")
        /\ Unwrap(singleton) = FALSE => IsSome(Node)
        /\ Raw \in {<<"~", "a">>, <<>>, Prefix} => Unwrap(singleton) = TRUE

\* dtn://~/a is not a singleton, with node dtn://~/
C14_Witness ==
    /\ IsSome(parsed) /\ singleton = Some(FALSE)
    /\ Raw = Prefix \o <<"~", "/", "a">>
    /\ Node = Some(Prefix \o <<"~", "/">>)

(* ---------------- properties of send and receive ----------------------- *)
\* the data of the reads of stdin, in the order of the reads
ReadsIn(tr) == SelectSeq(tr, LAMBDA st : st.step = "read_stdin" /\ st.ok)

RECURSIVE Concat(_)
Concat(chunks) ==
    IF chunks = <<>> THEN <<>>
    ELSE Head(chunks).data \o Concat(Tail(chunks))

SentLines == SelectSeq(log, LAMBDA l : l.kind = "sent")

\* C15: in a send, send_bundle is called only after a read returned no
\* byte, once, with the bytes of all the reads in their order and the
\* positional address as it was given; the "sent" line is logged only in
\* verbose mode after a successful send, with the length of that payload.
C15_SendWholeInput ==
    LET reads == ReadsIn(trace)
    IN  /\ IsSome(sent) =>
              /\ ~listen
              /\ reads # <<>>
              /\ reads[Len(reads)].data = <<>>
              /\ \A i \in 1..(Len(reads) - 1) : reads[i].data # <<>>
              /\ trace[Len(trace) - 1] = reads[Len(reads)]
              /\ LastStep.step = "send_bundle"
              /\ Unwrap(sent).payload = Concat(reads)
              /\ Unwrap(sent).destination = Unwrap(endpoint_id)
        /\ (pc = "send_read" /\ ~Did("send_bundle")) =>
              /\ \A i \in 1..Len(reads) : reads[i].data # <<>>
              /\ bundle_content = Concat(reads)
        /\ IF verbose /\ pc = "closed" /\ ~listen
           THEN SentLines = <<[kind |-> "sent",
                               size |-> Len(Unwrap(sent).payload),
                               destination |-> Unwrap(endpoint_id)]>>
           ELSE SentLines = <<>>

\* the two reads "xy" and "x" were sent as "xyx", and logged with size 3
C15_Witness ==
    /\ ~listen /\ verbose /\ pc = "closed"
    /\ Len(ReadsIn(trace)) = 3
    /\ ReadsIn(trace)[1].data = <<"x", "y">>
    /\ ReadsIn(trace)[2].data = <<"x">>
    /\ Unwrap(sent).payload = <<"x", "y", "x">>
    /\ SentLines # <<>> /\ SentLines[1].size = 3

ReceivedLines == SelectSeq(log, LAMBDA l : l.kind \in {"received", "received from unknown source"})

\* the log of a received bundle names its source, or says it is unknown
ReceivedLogged ==
    IF ~verbose THEN ReceivedLines = <<>>
    ELSE IF IsSome(Unwrap(bundle).source)
    THEN ReceivedLines = <<[kind |-> "received", source |-> Unwrap(Unwrap(bundle).source)]>>
    ELSE ReceivedLines = <<[kind |-> "received from unknown source"]>>

ReceiveFailed ==
    listen /\ pc = "aborted" /\ LastStep.step = "recv_bundle"

\* C16 as stated: once recv_bundle returned a bundle and the run ended,
\* stdout holds exactly the payload and the log names the source or says
\* "unknown source"; after a failed receive stdout is empty and the exit
\* code is 15.
C16_PayloadVerbatim ==
    /\ (IsSome(bundle) /\ Terminated) =>
          /\ out = Unwrap(bundle).payload
          /\ ReceivedLogged
    /\ ReceiveFailed => (out = <<>> /\ ExitedWith(15) /\ ReceivedLines = <<>>)

\* C16 as amended: once recv_bundle returned a bundle and the write to
\* stdout succeeded, stdout holds exactly the payload; when the write
\* failed, stdout holds a part of the payload that stops before its end
\* and the exit code is 16; in both cases the log names the source or says
\* "unknown source"; after a failed receive stdout is empty and the exit
\* code is 15.
C16_PayloadVerbatimIfWritten ==
    /\ (IsSome(bundle) /\ pc = "closed") => out = Unwrap(bundle).payload
    /\ (IsSome(bundle) /\ pc = "aborted") =>
          /\ ExitedWith(16)
          /\ Len(out) < Len(Unwrap(bundle).payload)
          /\ out = SubSeq(Unwrap(bundle).payload, 1, Len(out))
    /\ IsSome(bundle) => ReceivedLogged
    /\ ReceiveFailed => (out = <<>> /\ ExitedWith(15) /\ ReceivedLines = <<>>)
    /\ IsNone(bundle) => out = <<>>

\* the bundle "yx" from dtn://a/a was written and logged
C16_Witness ==
    /\ listen /\ verbose /\ pc = "closed"
    /\ bundle = Some([source |-> Some(Str_node1_agent1), payload |-> <<"y", "x">>])
    /\ out = <<"y", "x">>
    /\ ReceivedLines = <<[kind |-> "received", source |-> Str_node1_agent1]>>

(* ---------------- the session as a state machine ----------------------- *)
\* the state of the session at each position of the program: Idle until
\* validation is over, Handshaken from the welcome message until register
\* returned, Registered while the exchange call is still to come, Active
\* from the exchange call on
SessionStateAt(at) ==
    CASE at \in {"validate", "check_source"} -> "Idle"
      [] at = "connect" -> "Validated"
      [] at = "handshake" -> "Connected"
      [] at \in {"cross_check", "derive_agent_id", "register"} -> "Handshaken"
      [] at \in {"send_read", "receive"} -> "Registered"
      [] at \in {"send_bundle", "write_stdout"} -> "Active"
      [] at = "closed" -> "Closed"
      [] at = "aborted" -> "Aborted"

SessionState == SessionStateAt(pc)

SessionOrder == <<"Idle", "Validated", "Connected", "Handshaken",
                  "Registered", "Active", "Closed">>
RankOf(state) == CHOOSE i \in DOMAIN SessionOrder : SessionOrder[i] = state

\* some failure can end the run now
CanAbort == ENABLED (Next /\ pc' = "aborted")

\* C17: a step leaves the session in its state or moves it to the next
\* state of Idle, Validated, Connected, Handshaken, Registered, Active,
\* Closed, or to Aborted; no step is taken from Closed or Aborted; and at
\* connect, handshake, register, each read, send and receive a failure can
\* end the run in Aborted, as can validation of a group listening address
\* and the write of a non-empty payload.
C17_ForwardOnly ==
    /\ [][ /\ SessionState \notin {"Closed", "Aborted"}
           /\ \/ SessionStateAt(pc') = "Aborted"
              \/ SessionStateAt(pc') = SessionState
              \/ RankOf(SessionStateAt(pc')) = RankOf(SessionState) + 1 ]_vars
    /\ [](Terminated => ~ENABLED Next)
    /\ [](pc \in {"connect", "handshake", "register", "send_read",
                  "send_bundle", "receive"} => CanAbort)
    /\ []((pc = "validate" /\ listen /\ endpoint_id = Some(Str_group_agent))
              => CanAbort)
    /\ []((pc = "write_stdout" /\ Unwrap(bundle).payload # <<>>) => CanAbort)

\* a listen went through every state up to Closed
C17_Witness ==
    /\ listen /\ SessionState = "Closed"
    /\ Len(trace) = Len(ListenOrder) + 2
    /\ \A i \in DOMAIN trace : trace[i].ok

(* ---------------- output, termination, agent id ------------------------ *)
\* C18: a run that ended in a failure wrote no byte of a payload to
\* stdout and logged neither a "Sent" nor a "Received bundle" line.
C18_NoPartialOutput ==
    pc = "aborted" =>
        /\ out = <<>>
        /\ SentLines = <<>>
        /\ ReceivedLines = <<>>

\* the step appended by the step being taken
NewStep == trace'[Len(trace')]

\* C19: when every blocking call returns, every run reaches Closed or
\* Aborted; the read loop goes on after a read exactly when the read
\* returned bytes; a run at the receive call leaves it only by the return
\* of recv_bundle; a failed step ends the run, and an ended run takes no
\* step.
C19_Terminates ==
    /\ <>Terminated
    /\ [][ pc = "send_read" =>
              /\ NewStep.step = "read_stdin"
              /\ (pc' = "send_read") <=> (NewStep.ok /\ NewStep.data # <<>>)
              /\ (pc' = "aborted") <=> ~NewStep.ok ]_vars
    /\ [][ pc = "receive" => NewStep.step = "recv_bundle" ]_vars
    /\ [][ /\ Len(trace') = Len(trace) + 1
           /\ ~NewStep.ok => pc' = "aborted"
           /\ \A i \in DOMAIN trace : trace[i].ok ]_vars
    /\ [](Terminated => ~ENABLED Next)

\* a send ended after two reads with bytes and the read at the end of stdin
C19_Witness ==
    /\ ~listen /\ Terminated
    /\ Len(ReadsIn(trace)) = 3
    /\ ReadsIn(trace)[3].data = <<>>
    /\ LastStep.step = "send_bundle"

====
